---- MODULE Spec2Model ----
(***************************************************************************)
(* mod_spdy input path: SpdyToHttpConverterFactory (the FIFO queue of      *)
(* HttpStreamAccumulators) and SpdyInputFilter::Read, from                 *)
(* src/src/mod_spdy/apache/spdy_input_filter.cc.                           *)
(*                                                                         *)
(* The accumulator, the converter, the stream distributor, the frame pump, *)
(* the input stream adapter and the NPN callback are classes of the        *)
(* repository whose code is outside src/; they are modelled from spec.md   *)
(* (sections 3, 4.1-4.4, 4.6, 6).                                          *)
(***************************************************************************)
EXTENDS Integers, Sequences, FiniteSets, TLC

\* ------------------------------------------------------------------ bounds
MaxStreams == 2      \* stream identifiers the peer may open: 1..MaxStreams
MaxFrames == 4       \* frames the peer sends on the connection
MaxRead == 2         \* largest readbytes argument of a Read call

StreamIds == 1..MaxStreams

\* ---------------------------------------------------------------- statuses
APR_SUCCESS == "APR_SUCCESS"
APR_EAGAIN == "APR_EAGAIN"
APR_TIMEUP == "APR_TIMEUP"
APR_EGENERAL == "APR_EGENERAL"
APR_ECONNABORTED == "APR_ECONNABORTED"

NOT_DONE_YET == "NOT_DONE_YET"
USING_SPDY == "USING_SPDY"
NOT_USING_SPDY == "NOT_USING_SPDY"

AP_MODE_INIT == "AP_MODE_INIT"
AP_MODE_READBYTES == "AP_MODE_READBYTES"
AP_MODE_SPECULATIVE == "AP_MODE_SPECULATIVE"   \* used by the probe only
APR_BLOCK_READ == "APR_BLOCK_READ"
APR_NONBLOCK_READ == "APR_NONBLOCK_READ"

\* The arguments the consumer calls Read with: a capability probe or a read
\* of bytes, blocking or not, of one byte or of MaxRead bytes.
Modes == {AP_MODE_INIT, AP_MODE_READBYTES}
Blocks == {APR_BLOCK_READ, APR_NONBLOCK_READ}
ReadSizes == {1, MaxRead}

\* ----------------------------------------------------------------- buckets
\* What a brigade holds: a byte of a stream's request (the n-th byte written
\* to stream id's accumulator), a raw item of the transport, or the
\* end-of-stream marker.
DataBucket(id, n) == [kind |-> "data", id |-> id, n |-> n]
RawBucket(f) == [kind |-> "raw", id |-> f.id, n |-> 0]
EosBucket == [kind |-> "eos", id |-> 0, n |-> 0]

\* ------------------------------------------------------------------ frames
OpenFrame(id, ok) == [kind |-> "open", id |-> id, ok |-> ok]
DataFrame(id) == [kind |-> "data", id |-> id, ok |-> TRUE]
EndFrame(id) == [kind |-> "end", id |-> id, ok |-> TRUE]
RstFrame(id) == [kind |-> "rst", id |-> id, ok |-> TRUE]

VARIABLES
  npn_state,       \* context_->npn_state()
  warned,          \* LOG(WARNING) "NPN never finished" was written
  aborted,         \* filter->c->aborted
  queue,           \* SpdyToHttpConverterFactory::queue_, front first
  partial,         \* the framer holds the first part of a frame
  buffered,        \* bytes input_ has read and not handed to the framer
  next_filter_rv,  \* input_->next_filter_rv()
  source,          \* frames readable from the next filter, oldest first
  frag,            \* only the first part of the last frame of source arrived
  peer,            \* per stream id: what the peer has sent ("none","open","ended")
  sent,            \* frames sent by the peer so far
  pc,              \* position of the consumer inside SpdyInputFilter::Read
  args,            \* mode, block, readbytes of the current (last) Read call
  brigade,         \* buckets appended to the caller's brigade by this call
  ret,             \* status returned by the last Read call
  branch,          \* the return statement the last Read call left through
  pumpCalls,       \* PumpOneFrame calls made by the current (last) Read call
  lastPump,        \* what the last of them returned ("none" before the first)
  rawCall,         \* arguments of the last pass-through ap_get_brigade
  out,             \* all buckets consumed from accumulators, in order
  created,         \* stream ids in the order Create was called
  completed,       \* stream ids in the order their accumulators became complete
  evicted,         \* accumulators popped from queue_, as they were when popped
  wr,              \* per stream id: bytes written to its accumulator so far
  reported         \* stream ids whose error a Read reported (EOS + APR_EGENERAL)

vars == <<npn_state, warned, aborted, queue, partial, buffered, next_filter_rv, source,
          frag, peer, sent, pc, args, brigade, ret, branch, pumpCalls,
          lastPump, rawCall, out, created, completed, evicted, wr, reported>>

progVars == <<npn_state, warned, aborted, queue, partial, buffered, next_filter_rv>>

envVars == <<source, frag, peer, sent>>
callVars == <<args, brigade, ret, branch, pumpCalls, lastPump, rawCall>>
histVars == <<out, created, completed, evicted, wr, reported>>

\* ------------------------------------------------------------ small helpers
Min(a, b) == IF a < b THEN a ELSE b

Ids(q) == {q[i].id : i \in 1..Len(q)}

Take(s, n) == SubSeq(s, 1, Min(n, Len(s)))
Drop(s, n) == SubSeq(s, Min(n, Len(s)) + 1, Len(s))

\* ------------------------------------------------- HttpStreamAccumulator
NewAccumulator(id) ==
  [id |-> id, data |-> <<>>, complete |-> FALSE, error |-> FALSE]

\* HttpStreamAccumulator::Read: INIT gives nothing; READBYTES moves up to
\* readbytes bytes from the front of the buffer to the brigade.
AccumulatorRead(acc, mode, readbytes) ==
  IF mode = AP_MODE_INIT
    THEN [acc |-> acc, rv |-> APR_SUCCESS, data |-> <<>>]
    ELSE [acc |-> [acc EXCEPT !.data = Drop(acc.data, readbytes)],
          rv |-> APR_SUCCESS,
          data |-> Take(acc.data, readbytes)]

\* --------------------------------------------- SpdyToHttpConverterFactory
\* Mutant: the fresh accumulator is put at the front of the queue.
CreateAtFront(q, id) == <<NewAccumulator(id)>> \o q

\* Create: a fresh accumulator is pushed at the back of queue_.
Create(q, id) == Append(q, NewAccumulator(id))

\* Mutant: the front accumulator is popped without IsComplete() being asked.
RemovableIgnoringComplete(acc) == acc.error \/ acc.data = <<>>

\* Mutant: IsComplete() guards only the empty case, an errored accumulator
\* is popped whether complete or not.
RemovableWhenErrored(acc) == acc.error \/ (acc.complete /\ acc.data = <<>>)

\* Mutant: the front accumulator is popped as soon as it is complete, with
\* or without bytes left in it.
RemovableWhenComplete(acc) == acc.complete

\* Mutant: only an errored accumulator is popped, the IsEmpty() case is
\* left out.
RemovableErroredOnly(acc) == acc.complete /\ acc.error

\* The test of RemoveEmptyAccumulators on the front accumulator.
Removable(acc) == acc.complete /\ (acc.error \/ acc.data = <<>>)

\* Mutant: every removable accumulator is popped, wherever it is queued.
RemoveEverywhere(q) == SelectSeq(q, LAMBDA a : ~Removable(a))

\* Mutant: a single test in place of the loop, one accumulator popped at
\* most.
RemoveFrontOnce(q) == IF q # <<>> /\ Removable(Head(q)) THEN Tail(q) ELSE q

RECURSIVE RemoveEmptyAccumulators(_)
RemoveEmptyAccumulators(q) ==
  IF q # <<>> /\ Removable(Head(q))
    THEN RemoveEmptyAccumulators(Tail(q))
    ELSE q

\* GetAccumulator: cleans the queue, then gives the front accumulator.
\* q is the queue afterwards; none stands for NULL.
GetAccumulator(q) ==
  LET q1 == RemoveEmptyAccumulators(q)
  IN  [q |-> q1, none |-> q1 = <<>>]

\* Mutant: data in any queued accumulator counts as available.
IsDataAvailableAnywhere(q) ==
  LET g == GetAccumulator(q)
  IN  [q |-> g.q,
       val |-> \E i \in 1..Len(g.q) : ~g.q[i].error /\ g.q[i].data # <<>>]

IsDataAvailable(q) ==
  LET g == GetAccumulator(q)
  IN  [q |-> g.q,
       val |-> ~(g.none \/ Head(g.q).error \/ Head(g.q).data = <<>>)]

\* Mutant: an errored accumulator anywhere in the queue counts.
HasErrorAnywhere(q) ==
  LET g == GetAccumulator(q)
  IN  [q |-> g.q, val |-> \E i \in 1..Len(g.q) : g.q[i].error]

HasError(q) ==
  LET g == GetAccumulator(q)
  IN  [q |-> g.q, val |-> IF g.none THEN FALSE ELSE Head(g.q).error]

\* Mutant: with no data available the factory's Read reports a failure.
FactoryReadNoDataFails(q, mode, readbytes) ==
  LET h == HasError(q)
  IN  IF h.val
        THEN [q |-> h.q, mid |-> h.q, rv |-> APR_EGENERAL, data |-> <<>>,
              dcheck |-> TRUE]
        ELSE
          LET d == IsDataAvailable(h.q)
          IN  IF ~d.val
                THEN [q |-> d.q, mid |-> d.q, rv |-> APR_EGENERAL,
                      data |-> <<>>, dcheck |-> FALSE]
                ELSE
                  LET g == GetAccumulator(d.q)
                      r == AccumulatorRead(Head(g.q), mode, readbytes)
                      m == <<r.acc>> \o Tail(g.q)
                  IN  [q |-> RemoveEmptyAccumulators(m), mid |-> m,
                       rv |-> r.rv, data |-> r.data, dcheck |-> FALSE]

\* SpdyToHttpConverterFactory::Read. mid is the queue right after the
\* accumulator was read and before the trailing RemoveEmptyAccumulators;
\* dcheck tells that the DCHECK(false) branch was taken.
FactoryRead(q, mode, readbytes) ==
  LET h == HasError(q)
  IN  IF h.val
        THEN [q |-> h.q, mid |-> h.q, rv |-> APR_EGENERAL, data |-> <<>>,
              dcheck |-> TRUE]
        ELSE
          LET d == IsDataAvailable(h.q)
          IN  IF ~d.val
                THEN [q |-> d.q, mid |-> d.q, rv |-> APR_SUCCESS,
                      data |-> <<>>, dcheck |-> FALSE]
                ELSE
                  LET g == GetAccumulator(d.q)
                      r == AccumulatorRead(Head(g.q), mode, readbytes)
                      m == <<r.acc>> \o Tail(g.q)
                  IN  [q |-> RemoveEmptyAccumulators(m), mid |-> m,
                       rv |-> r.rv, data |-> r.data, dcheck |-> FALSE]

\* The accumulators of `before` that are no longer in `after`, as records
\* of the eviction history.
Popped(before, after) ==
  LET gone(a) == a.id \notin Ids(after)
      rec(a) == [id |-> a.id, complete |-> a.complete, error |-> a.error,
                 left |-> Len(a.data)]
      s == SelectSeq(before, gone)
  IN  [i \in 1..Len(s) |-> rec(s[i])]

\* ------------------------------- SpdyStreamDistributor, SpdyToHttpConverter
\* The converter of a live stream is in the state its accumulator shows:
\* Error when errored, Terminated when complete, StreamingBody otherwise.
\* Error and Terminated take no further frame. In StreamingBody a data frame
\* is appended, the end marker completes the accumulator, and a reset of
\* the stream (an unrecoverable per-stream error) terminates it: the
\* accumulator is errored and complete.
Converted(acc, f, w) ==
  IF acc.error \/ acc.complete THEN acc
  ELSE IF f.kind = "data"
    THEN [acc EXCEPT !.data = Append(@, DataBucket(acc.id, w[acc.id] + 1))]
  ELSE IF f.kind = "end" THEN [acc EXCEPT !.complete = TRUE]
  ELSE IF f.kind = "rst" THEN [acc EXCEPT !.complete = TRUE, !.error = TRUE]
  ELSE [acc EXCEPT !.error = TRUE]

\* The stream-open frame as the converter of a fresh stream handles it:
\* a well-formed one is written as the request line and the header block,
\* a malformed one puts the stream in Error.
Opened(acc, f) ==
  IF f.ok
    THEN [acc EXCEPT !.data = <<DataBucket(acc.id, 1), DataBucket(acc.id, 2)>>]
    ELSE [acc EXCEPT !.error = TRUE]

\* The position of stream id's accumulator in q.
Index(q, id) == CHOOSE j \in 1..Len(q) : q[j].id = id

\* One parsed frame handed to the distributor. q: the queue, w: bytes
\* written per stream, c: the creation history. A stream-open frame of a
\* new stream creates its converter and accumulator; a frame of a live
\* stream goes to its converter; a frame of a stream that is not live
\* changes nothing in the queue.
Dispatch(q, w, c, f) ==
  IF f.id \in Ids(q)
    THEN LET i == Index(q, f.id)
             a == Converted(q[i], f, w)
         IN  [q |-> [q EXCEPT ![i] = a],
              w |-> [w EXCEPT ![f.id] = @ + Len(a.data) - Len(q[i].data)],
              c |-> c]
    ELSE IF f.kind = "open" /\ f.id \notin Ids(c)
      THEN LET q1 == Create(q, f.id)
               i == Index(q1, f.id)
               a == Opened(q1[i], f)
           IN  [q |-> [q1 EXCEPT ![i] = a],
                w |-> [w EXCEPT ![f.id] = Len(a.data)],
                c |-> Append(c, [id |-> f.id])]
      ELSE [q |-> q, w |-> w, c |-> c]

\* The streams whose accumulators are complete in q1 and were not in q0.
NewlyComplete(q0, q1) ==
  LET done(q) == {q[i].id : i \in {j \in 1..Len(q) : q[j].complete}}
      s == SelectSeq(q1, LAMBDA a : a.id \in done(q1) \ done(q0))
  IN  [i \in 1..Len(s) |-> s[i].id]

\* ------------------------------------ raw transport (the next filter)
\* The status of a read that finds no bytes.
NoData(block) ==
  IF block = APR_BLOCK_READ THEN APR_TIMEUP ELSE APR_EAGAIN

\* ap_get_brigade(filter->next, ...) on the raw transport.
RawRead(src, mode, block, readbytes) ==
  IF mode = AP_MODE_INIT THEN [rv |-> APR_SUCCESS, data |-> <<>>, source |-> src]
  ELSE IF src = <<>>
    THEN [rv |-> NoData(block), data |-> <<>>, source |-> src]
    ELSE [rv |-> APR_SUCCESS,
          data |-> [i \in 1..Min(readbytes, Len(src)) |-> RawBucket(src[i])],
          source |-> IF mode = AP_MODE_SPECULATIVE THEN src
                     ELSE Drop(src, readbytes)]

\* ------------------------------------ SpdyFramePump, InputFilterInputStream
\* Mutant: the input stream reads all the transport has and hands the
\* framer the bytes of one frame, keeping the rest.
PumpOneFrameReadAhead(src, fr, part, q, w, c, block) ==
  LET firstPartOnly == Len(src) = 1 /\ fr
  IN  IF src = <<>> \/ (firstPartOnly /\ part)
        THEN [progress |-> FALSE, source |-> src, partial |-> part,
              buffered |-> 0,
              q |-> q, w |-> w, c |-> c, rv |-> NoData(block)]
      ELSE IF firstPartOnly
        THEN [progress |-> TRUE, source |-> src, partial |-> TRUE,
              buffered |-> 0,
              q |-> q, w |-> w, c |-> c, rv |-> NoData(block)]
      ELSE LET d == Dispatch(q, w, c, Head(src))
           IN  [progress |-> TRUE, source |-> Tail(src), partial |-> FALSE,
                buffered |-> Len(src) - 1,
                q |-> d.q, w |-> d.w, c |-> d.c, rv |-> APR_SUCCESS]

\* PumpOneFrame reads what is there of the next frame. With the whole frame
\* read it is dispatched; with only its first part read the framer keeps it
\* (part); with no byte read the pump reports no progress. rv is the status
\* of the last raw read the input stream made. The input stream reads
\* exactly the bytes the framer takes for the frame and hands them all
\* over: buffered, what it keeps, is nothing.
PumpOneFrame(src, fr, part, q, w, c, block) ==
  LET firstPartOnly == Len(src) = 1 /\ fr
  IN  IF src = <<>> \/ (firstPartOnly /\ part)
        THEN [progress |-> FALSE, source |-> src, partial |-> part,
              buffered |-> 0,
              q |-> q, w |-> w, c |-> c, rv |-> NoData(block)]
      ELSE IF firstPartOnly
        THEN [progress |-> TRUE, source |-> src, partial |-> TRUE,
              buffered |-> 0,
              q |-> q, w |-> w, c |-> c, rv |-> NoData(block)]
      ELSE LET d == Dispatch(q, w, c, Head(src))
           IN  [progress |-> TRUE, source |-> Tail(src), partial |-> FALSE,
                buffered |-> 0,
                q |-> d.q, w |-> d.w, c |-> d.c, rv |-> APR_SUCCESS]

\* ---------------------------------------------------------------- Init
NoArgs == [mode |-> "none", block |-> "none", readbytes |-> 0]

Init ==
  /\ npn_state = NOT_DONE_YET
  /\ warned = FALSE
  /\ aborted = FALSE
  /\ queue = <<>>
  /\ partial = FALSE
  /\ buffered = 0
  /\ next_filter_rv = APR_SUCCESS
  /\ source = <<>>
  /\ frag = FALSE
  /\ peer = [id \in StreamIds |-> "none"]
  /\ sent = 0
  /\ pc = "idle"
  /\ args = NoArgs
  /\ brigade = <<>>
  /\ ret = "none"
  /\ branch = "none"
  /\ pumpCalls = 0
  /\ lastPump = "none"
  /\ rawCall = NoArgs
  /\ out = <<>>
  /\ created = <<>>
  /\ completed = <<>>
  /\ evicted = <<>>
  /\ wr = [id \in StreamIds |-> 0]
  /\ reported = {}

\* ------------------------------------------------------- the environment
\* Where the world outside Read moves: between Read calls, and while Read
\* is inside a read of the next filter (the probe, the pump).
RawPoints == {"idle", "probe", "pump"}

\* The frames the peer may send next. Streams are opened in the order of
\* their identifiers, by a well-formed or a malformed stream-open frame; a
\* stream the peer opened gets data frames, and is ended once, by its end
\* marker or by a reset.
NextStream ==
  {i \in StreamIds : peer[i] = "none" /\ \A j \in 1..(i - 1) : peer[j] # "none"}

OpenStreams == {i \in StreamIds : peer[i] = "open"}

PeerFrames ==
  {OpenFrame(id, ok) : id \in NextStream, ok \in BOOLEAN}
  \cup {DataFrame(id) : id \in OpenStreams}
  \cup {EndFrame(id) : id \in OpenStreams}
  \cup {RstFrame(id) : id \in OpenStreams}

\* A frame reaches the transport, whole or only its first part.
Arrive ==
  /\ sent < MaxFrames /\ ~frag /\ pc \in RawPoints
  /\ \E f \in PeerFrames, whole \in BOOLEAN :
       /\ source' = Append(source, f)
       /\ frag' = ~whole
       /\ peer' = [peer EXCEPT ![f.id] =
                     IF f.kind \in {"end", "rst"} THEN "ended"
                     ELSE IF f.kind = "open" THEN "open" ELSE @]
  /\ sent' = sent + 1
  /\ UNCHANGED pc /\ UNCHANGED progVars
  /\ UNCHANGED callVars /\ UNCHANGED histVars

\* The rest of the last frame reaches the transport.
ArriveRest ==
  /\ frag /\ pc \in RawPoints
  /\ frag' = FALSE
  /\ UNCHANGED <<source, peer, sent, pc>> /\ UNCHANGED progVars
  /\ UNCHANGED callVars /\ UNCHANGED histVars

\* The connection is marked aborted (c->aborted) by the connection's other
\* filters: between Read calls or inside a read of the next filter.
Abort ==
  /\ ~aborted /\ pc \in RawPoints
  /\ aborted' = TRUE
  /\ UNCHANGED <<npn_state, warned, queue, partial, buffered, next_filter_rv, pc>>
  /\ UNCHANGED envVars /\ UNCHANGED callVars /\ UNCHANGED histVars

\* The NPN callback of the TLS handshake sets the negotiation state, once:
\* between Read calls or inside the probe read that drives the handshake.
NpnCallback ==
  /\ npn_state = NOT_DONE_YET /\ pc \in {"idle", "probe"}
  /\ \E v \in {USING_SPDY, NOT_USING_SPDY} : npn_state' = v
  /\ UNCHANGED <<warned, aborted, queue, partial, buffered, next_filter_rv, pc>>
  /\ UNCHANGED envVars /\ UNCHANGED callVars /\ UNCHANGED histVars

\* ------------------------------------------------- SpdyInputFilter::Read
\* A return statement of Read: the status, the return taken, and what the
\* call appended to the caller's brigade.
Return(rv, how, buckets) ==
  /\ ret' = rv
  /\ branch' = how
  /\ brigade' = buckets
  /\ pc' = "returned"

\* return ap_get_brigade(filter->next, brigade, mode, block, readbytes).
PassThrough(a) ==
  LET r == RawRead(source, a.mode, a.block, a.readbytes)
  IN  /\ Return(r.rv, "passthrough", r.data)
      /\ source' = r.source
      /\ rawCall' = a
      /\ UNCHANGED <<aborted, queue, partial, buffered, next_filter_rv, frag, peer,
                     sent, pumpCalls, lastPump>>
      /\ UNCHANGED histVars

\* The aborted connection: an EOS bucket and APR_ECONNABORTED.
AbortReturn ==
  /\ Return(APR_ECONNABORTED, "aborted", <<EosBucket>>)
  /\ UNCHANGED <<aborted, queue, partial, buffered, next_filter_rv, pumpCalls,
                 lastPump, rawCall>>
  /\ UNCHANGED envVars /\ UNCHANGED histVars

\* AP_MODE_INIT: nothing to do.
InitReturn ==
  /\ Return(APR_SUCCESS, "init", <<>>)
  /\ UNCHANGED <<aborted, queue, partial, buffered, next_filter_rv, pumpCalls,
                 lastPump, rawCall>>
  /\ UNCHANGED envVars /\ UNCHANGED histVars

\* input_->set_filter(filter, block): the while loop is next.
StartPump ==
  /\ pc' = "pump"
  /\ UNCHANGED <<aborted, queue, partial, buffered, next_filter_rv, brigade, ret,
                 branch, pumpCalls, lastPump, rawCall>>
  /\ UNCHANGED envVars /\ UNCHANGED histVars

\* Mutant: the abort check made before the test of the negotiation state.
BodyAbortFirst(npn, a) ==
  IF aborted THEN AbortReturn
  ELSE IF npn # USING_SPDY THEN PassThrough(a)
  ELSE IF a.mode = AP_MODE_INIT THEN InitReturn
  ELSE StartPump

\* Mutant: the AP_MODE_INIT check made before the abort check.
BodyInitFirst(npn, a) ==
  IF npn # USING_SPDY THEN PassThrough(a)
  ELSE IF a.mode = AP_MODE_INIT THEN InitReturn
  ELSE IF aborted THEN AbortReturn
  ELSE StartPump

\* Mutant: no AP_MODE_INIT check, the call goes on to the loop.
BodyNoInitCheck(npn, a) ==
  IF npn # USING_SPDY THEN PassThrough(a)
  ELSE IF aborted THEN AbortReturn
  ELSE StartPump

\* Read from the test of the negotiation state on: the pass-through, the
\* abort check, the AP_MODE_INIT check, the start of the loop. npn is the
\* negotiation state as that test reads it, a the arguments of the call.
Body(npn, a) ==
  IF npn # USING_SPDY THEN PassThrough(a)
  ELSE IF aborted THEN AbortReturn
  ELSE IF a.mode = AP_MODE_INIT THEN InitReturn
  ELSE StartPump

\* The consumer calls Read(filter, brigade, mode, block, readbytes). With
\* the negotiation not done the speculative probe read is issued; otherwise
\* the body runs.
ReadCall ==
  /\ pc = "idle"
  /\ \E mode \in Modes, block \in Blocks, readbytes \in ReadSizes :
       LET a == [mode |-> mode, block |-> block, readbytes |-> readbytes]
       IN  /\ args' = a
           /\ IF npn_state = NOT_DONE_YET
                THEN /\ pc' = "probe"
                     /\ UNCHANGED <<aborted, queue, partial, buffered, next_filter_rv,
                                    brigade, ret, branch, pumpCalls, lastPump,
                                    rawCall>>
                     /\ UNCHANGED envVars /\ UNCHANGED histVars
                ELSE Body(npn_state, a)
  /\ UNCHANGED <<npn_state, warned>>

\* Mutant: the default is applied whatever the callback has set.
AfterProbeOverrides(npn) == NOT_USING_SPDY

\* The negotiation state after a probe read that succeeded: one still
\* NOT_DONE_YET is set to NOT_USING_SPDY.
AfterProbe(npn) == IF npn = NOT_DONE_YET THEN NOT_USING_SPDY ELSE npn

\* Mutant: the default is applied before the status of the probe is tested.
ProbeReturnDefaultsFirst ==
  /\ pc = "probe"
  /\ npn_state' = AfterProbe(npn_state)
  /\ warned' = (warned \/ npn_state = NOT_DONE_YET)
  /\ LET r == RawRead(source, AP_MODE_SPECULATIVE, APR_BLOCK_READ, 1)
     IN  IF r.rv # APR_SUCCESS
           THEN /\ Return(r.rv, "probe_failed", <<>>)
                /\ UNCHANGED <<aborted, queue, partial, buffered, next_filter_rv,
                               pumpCalls, lastPump, rawCall>>
                /\ UNCHANGED envVars /\ UNCHANGED histVars
           ELSE Body(AfterProbe(npn_state), args)
  /\ UNCHANGED args

\* The probe read returns: a failure is returned as it is; after a success
\* the negotiation state is settled and the body runs.
ProbeReturn ==
  /\ pc = "probe"
  /\ LET r == RawRead(source, AP_MODE_SPECULATIVE, APR_BLOCK_READ, 1)
     IN  IF r.rv # APR_SUCCESS
           THEN /\ Return(r.rv, "probe_failed", <<>>)
                /\ UNCHANGED <<npn_state, warned, aborted, queue, partial,
                               buffered, next_filter_rv, pumpCalls, lastPump, rawCall>>
                /\ UNCHANGED envVars /\ UNCHANGED histVars
           ELSE /\ npn_state' = AfterProbe(npn_state)
                /\ warned' = (warned \/ npn_state = NOT_DONE_YET)
                /\ Body(AfterProbe(npn_state), args)
  /\ UNCHANGED args

\* Mutant: the loop tests IsDataAvailable only, not HasError.
PumpStepIgnoringError ==
  /\ pc = "pump"
  /\ LET d == IsDataAvailable(queue)
     IN  IF ~d.val
           THEN LET p == PumpOneFrame(source, frag, partial, d.q, wr, created,
                                      args.block)
                IN  /\ queue' = p.q
                    /\ source' = p.source
                    /\ partial' = p.partial
                    /\ buffered' = p.buffered
                    /\ next_filter_rv' = p.rv
                    /\ wr' = p.w
                    /\ created' = p.c
                    /\ completed' = completed \o NewlyComplete(d.q, p.q)
                    /\ pumpCalls' = pumpCalls + 1
                    /\ lastPump' = IF p.progress THEN "true" ELSE "false"
                    /\ pc' = IF p.progress THEN "pump" ELSE "drain"
                    /\ evicted' = evicted \o Popped(queue, d.q)
           ELSE /\ queue' = d.q
                /\ pc' = "drain"
                /\ evicted' = evicted \o Popped(queue, queue')
                /\ UNCHANGED <<source, partial, buffered, next_filter_rv, wr, created,
                               completed, pumpCalls, lastPump>>
  /\ UNCHANGED <<npn_state, warned, aborted, frag, peer, sent, args, brigade,
                 ret, branch, rawCall, out, reported>>

\* Mutant: the result of PumpOneFrame is not tested, the loop goes on until
\* the queue reports data or an error.
PumpStepNoBreak ==
  /\ pc = "pump"
  /\ LET h == HasError(queue)
         d == IsDataAvailable(h.q)
     IN  IF ~h.val /\ ~d.val
           THEN LET p == PumpOneFrame(source, frag, partial, d.q, wr, created,
                                      args.block)
                IN  /\ queue' = p.q
                    /\ source' = p.source
                    /\ partial' = p.partial
                    /\ buffered' = p.buffered
                    /\ next_filter_rv' = p.rv
                    /\ wr' = p.w
                    /\ created' = p.c
                    /\ completed' = completed \o NewlyComplete(d.q, p.q)
                    /\ pumpCalls' = pumpCalls + 1
                    /\ lastPump' = IF p.progress THEN "true" ELSE "false"
                    /\ pc' = "pump"
                    /\ evicted' = evicted \o Popped(queue, d.q)
           ELSE /\ queue' = IF h.val THEN h.q ELSE d.q
                /\ pc' = "drain"
                /\ evicted' = evicted \o Popped(queue, queue')
                /\ UNCHANGED <<source, partial, buffered, next_filter_rv, wr, created,
                               completed, pumpCalls, lastPump>>
  /\ UNCHANGED <<npn_state, warned, aborted, frag, peer, sent, args, brigade,
                 ret, branch, rawCall, out, reported>>

\* One turn of the while loop: the loop test (with the cleanups HasError
\* and IsDataAvailable make), and PumpOneFrame when the test passes.
PumpStep ==
  /\ pc = "pump"
  /\ LET h == HasError(queue)
         d == IsDataAvailable(h.q)
     IN  IF ~h.val /\ ~d.val
           THEN LET p == PumpOneFrame(source, frag, partial, d.q, wr, created,
                                      args.block)
                IN  /\ queue' = p.q
                    /\ source' = p.source
                    /\ partial' = p.partial
                    /\ buffered' = p.buffered
                    /\ next_filter_rv' = p.rv
                    /\ wr' = p.w
                    /\ created' = p.c
                    /\ completed' = completed \o NewlyComplete(d.q, p.q)
                    /\ pumpCalls' = pumpCalls + 1
                    /\ lastPump' = IF p.progress THEN "true" ELSE "false"
                    /\ pc' = IF p.progress THEN "pump" ELSE "drain"
                    /\ evicted' = evicted \o Popped(queue, d.q)
           ELSE /\ queue' = IF h.val THEN h.q ELSE d.q
                /\ pc' = "drain"
                /\ evicted' = evicted \o Popped(queue, queue')
                /\ UNCHANGED <<source, partial, buffered, next_filter_rv, wr, created,
                               completed, pumpCalls, lastPump>>
  /\ UNCHANGED <<npn_state, warned, aborted, frag, peer, sent, args, brigade,
                 ret, branch, rawCall, out, reported>>

\* Mutant: after the factory's Read its own status is returned, also with
\* the buffers drained.
ReadFinishSyntheticSuccess ==
  /\ pc = "drain"
  /\ LET h == HasError(queue)
     IN  IF h.val
           THEN /\ Return(APR_EGENERAL, "error", <<EosBucket>>)
                /\ queue' = h.q
                /\ evicted' = evicted \o Popped(queue, h.q)
                /\ reported' = reported \cup {Head(h.q).id}
                /\ UNCHANGED out
           ELSE LET r == FactoryRead(h.q, args.mode, args.readbytes)
                    d == IsDataAvailable(r.q)
                    drained == r.rv = APR_SUCCESS /\ ~d.val
                IN  /\ Return(r.rv,
                              IF drained THEN "drained"
                              ELSE IF r.dcheck THEN "dcheck" ELSE "read",
                              r.data)
                    /\ queue' = IF r.rv = APR_SUCCESS THEN d.q ELSE r.q
                    /\ evicted' = evicted \o Popped(queue, r.mid)
                                          \o Popped(r.mid, queue')
                    /\ out' = out \o r.data
                    /\ UNCHANGED reported
  /\ UNCHANGED <<npn_state, warned, aborted, partial, buffered, next_filter_rv, args,
                 pumpCalls, lastPump, rawCall, created, completed, wr>>
  /\ UNCHANGED envVars

\* Mutant: no HasError test after the loop, the factory's Read is called
\* whatever the head accumulator is.
ReadFinishNoErrorCheck ==
  /\ pc = "drain"
  /\ LET r == FactoryRead(queue, args.mode, args.readbytes)
         d == IsDataAvailable(r.q)
         drained == r.rv = APR_SUCCESS /\ ~d.val
     IN  /\ IF drained
              THEN Return(next_filter_rv, "drained", r.data)
              ELSE Return(r.rv, IF r.dcheck THEN "dcheck" ELSE "read", r.data)
         /\ queue' = IF r.rv = APR_SUCCESS THEN d.q ELSE r.q
         /\ evicted' = evicted \o Popped(queue, r.mid) \o Popped(r.mid, queue')
         /\ out' = out \o r.data
         /\ UNCHANGED reported
  /\ UNCHANGED <<npn_state, warned, aborted, partial, buffered, next_filter_rv,
                 args, pumpCalls, lastPump, rawCall, created, completed, wr>>
  /\ UNCHANGED envVars

\* After the loop: the error return, or the factory's Read and the choice
\* of the status.
ReadFinish ==
  /\ pc = "drain"
  /\ LET h == HasError(queue)
     IN  IF h.val
           THEN /\ Return(APR_EGENERAL, "error", <<EosBucket>>)
                /\ queue' = h.q
                /\ evicted' = evicted \o Popped(queue, h.q)
                /\ reported' = reported \cup {Head(h.q).id}
                /\ UNCHANGED out
           ELSE LET r == FactoryRead(h.q, args.mode, args.readbytes)
                    d == IsDataAvailable(r.q)
                    drained == r.rv = APR_SUCCESS /\ ~d.val
                IN  /\ IF drained
                         THEN Return(next_filter_rv, "drained", r.data)
                         ELSE Return(r.rv,
                                     IF r.dcheck THEN "dcheck" ELSE "read",
                                     r.data)
                    /\ queue' = IF r.rv = APR_SUCCESS THEN d.q ELSE r.q
                    /\ evicted' = evicted \o Popped(queue, r.mid)
                                          \o Popped(r.mid, queue')
                    /\ out' = out \o r.data
                    /\ UNCHANGED reported
  /\ UNCHANGED <<npn_state, warned, aborted, partial, buffered, next_filter_rv, args,
                 pumpCalls, lastPump, rawCall, created, completed, wr>>
  /\ UNCHANGED envVars

\* The consumer takes what the call returned; the next call starts afresh.
Consume ==
  /\ pc = "returned"
  /\ pc' = "idle"
  /\ args' = NoArgs /\ brigade' = <<>> /\ ret' = "none" /\ branch' = "none"
  /\ pumpCalls' = 0 /\ lastPump' = "none" /\ rawCall' = NoArgs
  /\ UNCHANGED progVars /\ UNCHANGED envVars /\ UNCHANGED histVars

Next ==
  \/ Arrive
  \/ ArriveRest
  \/ Abort
  \/ NpnCallback
  \/ ReadCall
  \/ ProbeReturn
  \/ PumpStep
  \/ ReadFinish
  \/ Consume

Spec == Init /\ [][Next]_vars

\* ================================================================ claims
\* Helpers of the claims below.
CreatedIds == {created[k].id : k \in 1..Len(created)}
Pos(id) == CHOOSE k \in 1..Len(created) : created[k].id = id
CreatedBefore(a, b) == Pos(a) < Pos(b)
EvictedComplete(id) ==
  \E j \in 1..Len(evicted) : evicted[j].id = id /\ evicted[j].complete
DataIds(buckets) ==
  {buckets[i].id : i \in {j \in 1..Len(buckets) : buckets[j].kind = "data"}}
IsPrefix(s, t) == Len(s) <= Len(t) /\ s = SubSeq(t, 1, Len(s))

\* C1. Head-of-line ordering: whenever a byte of stream B has been returned
\* by Read (it is in the caller's brigade or in the output consumed so far),
\* every stream A created before B has left the queue, and was complete
\* when it was popped.
C1_HeadOfLineOrdering ==
  \A b \in DataIds(out) \cup DataIds(brigade) :
    \A a \in CreatedIds :
      CreatedBefore(a, b) => a \notin Ids(queue) /\ EvictedComplete(a)

\* C1 witness: stream 2 became complete before stream 1, and its bytes were
\* returned after all of stream 1's.
C1_Witness ==
  /\ completed = <<2, 1>>
  /\ pc = "returned"
  /\ DataIds(brigade) = {2}
  /\ DataIds(out) = {1, 2}

\* The bytes written to stream id's accumulator so far, and all streams'
\* bytes one stream after the other in creation order.
Content(id) == [n \in 1..wr[id] |-> DataBucket(id, n)]

RECURSIVE Serialized(_)
Serialized(c) ==
  IF c = <<>> THEN <<>> ELSE Content(Head(c).id) \o Serialized(Tail(c))

NoStreamErrored ==
  /\ \A i \in 1..Len(queue) : ~queue[i].error
  /\ \A j \in 1..Len(evicted) : ~evicted[j].error

\* C2. Serialized output: with no stream errored, the bytes returned so far
\* are a prefix of the streams' bytes concatenated in creation order, and
\* they are all of them once every accumulator has been popped.
C2_SerializedOutput ==
  NoStreamErrored =>
    /\ IsPrefix(out, Serialized(created))
    /\ (queue = <<>> => out = Serialized(created))

\* C2 witness: the peer sent four frames, the stream-open frames and the
\* end markers of streams 1 and 2 (stream 1 ended first), and both requests
\* came out whole, stream 1's before stream 2's.
C2_Witness ==
  /\ Len(created) = 2 /\ completed = <<1, 2>>
  /\ NoStreamErrored
  /\ queue = <<>> /\ sent = 4 /\ source = <<>>
  /\ out = <<DataBucket(1, 1), DataBucket(1, 2), DataBucket(2, 1),
             DataBucket(2, 2)>>

\* The head accumulator is neither complete nor errored: its stream stalls
\* the queue.
HeadStalled == queue # <<>> /\ ~Head(queue).complete /\ ~Head(queue).error

C3_NothingBehindSurfaces ==
  HeadStalled =>
    /\ \A i \in 2..Len(queue) : queue[i].id \notin DataIds(out) \cup DataIds(brigade)
    /\ \A id \in CreatedIds :
         CreatedBefore(Head(queue).id, id) => id \in Ids(queue)

C3_ReadGivesNoData ==
  (pc = "drain" /\ HeadStalled /\ Head(queue).data = <<>>) =>
    /\ pc' = "returned"
    /\ brigade' = <<>>
    /\ ret' = NoData(args.block)
    /\ out' = out
    /\ queue' = queue

\* C3. Head-of-line blocking: while the head stream is neither complete nor
\* errored, no byte of a stream behind it has been returned and every
\* stream created after it is still queued; and a Read that finds the head
\* empty returns no data, with the would-block status of the raw read,
\* and leaves the queue as it is.
C3_HeadOfLineBlocking ==
  [](C3_NothingBehindSurfaces) /\ [][C3_ReadGivesNoData]_vars

\* C3 witness: stream 1 is drained and has no end marker, stream 2 is
\* complete with its request buffered, and a Read has returned would-block
\* with nothing.
C3_Witness ==
  /\ pc = "returned" /\ branch = "drained"
  /\ Len(queue) = 2
  /\ HeadStalled /\ Head(queue).data = <<>>
  /\ queue[2].complete /\ ~queue[2].error /\ Len(queue[2].data) = 2
  /\ brigade = <<>> /\ ret = APR_EAGAIN
  /\ DataIds(out) = {1}

\* The accumulator that is the head once the removable ones before it are
\* popped is errored (it is then not complete).
LiveHeadErrored(q) ==
  \E i \in 1..Len(q) :
    /\ q[i].error /\ ~q[i].complete
    /\ \A j \in 1..(i - 1) :
         q[j].complete /\ (q[j].error \/ q[j].data = <<>>)

\* A step of Read in the pump loop (not one of the world outside).
IsPumpStep ==
  pc = "pump" /\ sent' = sent /\ frag' = frag /\ aborted' = aborted

C4_ErroredHeadReported ==
  /\ (IsPumpStep /\ LiveHeadErrored(queue)) =>
       (pc' = "drain" /\ pumpCalls' = pumpCalls /\ source' = source
        /\ LiveHeadErrored(queue'))
  /\ (pc = "drain" /\ LiveHeadErrored(queue)) =>
       (pc' = "returned" /\ ret' = APR_EGENERAL /\ brigade' = <<EosBucket>>
        /\ LiveHeadErrored(queue') /\ out' = out)

C4_ErroredPoppedOnlyComplete ==
  \A j \in 1..Len(evicted) : evicted[j].error => evicted[j].complete

\* C4 (as amended). When the head of the queue is errored and not complete,
\* Read in protocol mode pumps no frame, appends an end-of-stream marker and
\* returns APR_EGENERAL, and the accumulator stays at the head; an errored
\* accumulator is popped only when it is also complete, and then whether or
\* not a Read has reported its error.
C4_ErrorsAtTheHead ==
  [](C4_ErroredPoppedOnlyComplete) /\ [][C4_ErroredHeadReported]_vars

\* C4 witness: one stream was reset and popped with its error unreported,
\* and the next, opened by a malformed frame, is reported by a Read.
C4_Witness ==
  /\ pc = "returned" /\ branch = "error"
  /\ ret = APR_EGENERAL /\ brigade = <<EosBucket>>
  /\ queue # <<>> /\ Head(queue).error /\ wr[Head(queue).id] = 0
  /\ \E j \in 1..Len(evicted) :
       evicted[j].error /\ evicted[j].id \notin reported

\* C4 as claimed: no errored accumulator is popped before a Read has
\* reported its error.
C4_Original ==
  \A j \in 1..Len(evicted) : evicted[j].error => evicted[j].id \in reported

\* C5. Would-block without error: a Read in protocol mode whose last
\* PumpOneFrame call found no byte returns the status of that raw read
\* (the would-block status, no failure) and appends nothing.
C5_WouldBlockWithoutError ==
  (pc = "returned" /\ lastPump = "false") =>
    /\ branch = "drained"
    /\ ret = next_filter_rv
    /\ ret = NoData(args.block)
    /\ ret \notin {APR_EGENERAL, APR_ECONNABORTED, APR_SUCCESS}
    /\ brigade = <<>>

\* C5 witness: a non-blocking Read on an empty queue pumped once, found no
\* byte and returned APR_EAGAIN.
C5_Witness ==
  /\ pc = "returned" /\ lastPump = "false" /\ pumpCalls = 1
  /\ queue = <<>> /\ created = <<>>
  /\ ret = APR_EAGAIN /\ brigade = <<>>

\* A step that is the call of Read, and a step that is the return of the
\* probe read.
IsReadCall == pc = "idle" /\ pc' # "idle"
IsProbeReturn == pc = "probe" /\ pc' # "probe"
ProbeSucceeds ==
  RawRead(source, AP_MODE_SPECULATIVE, APR_BLOCK_READ, 1).rv = APR_SUCCESS
PipelineUntouched ==
  /\ pumpCalls' = 0
  /\ UNCHANGED <<queue, partial, buffered, next_filter_rv, out, created, evicted>>

C6_Stays == npn_state = NOT_USING_SPDY => npn_state' = NOT_USING_SPDY

C6_PassThrough ==
  (IsReadCall /\ npn_state = NOT_USING_SPDY) =>
    LET r == RawRead(source, args'.mode, args'.block, args'.readbytes)
    IN  /\ pc' = "returned" /\ branch' = "passthrough"
        /\ rawCall' = args'
        /\ ret' = r.rv /\ brigade' = r.data /\ source' = r.source
        /\ PipelineUntouched

\* C6. NOT_USING_SPDY is terminal, and every Read made in it is the read of
\* the next filter with the caller's arguments: its status, its buckets, no
\* pump call, no accumulator touched, also on an aborted connection and in
\* AP_MODE_INIT.
C6_NotUsingIsPassThrough == [][C6_Stays /\ C6_PassThrough]_vars

\* C6 witness: a Read on an aborted connection in NOT_USING_SPDY returned
\* raw buckets from the next filter.
C6_Witness ==
  /\ pc = "returned" /\ npn_state = NOT_USING_SPDY /\ aborted
  /\ branch = "passthrough" /\ rawCall = args
  /\ ret = APR_SUCCESS /\ brigade # <<>>

C7_FailureReturned ==
  (IsProbeReturn /\ ~ProbeSucceeds) =>
    /\ pc' = "returned" /\ branch' = "probe_failed"
    /\ ret' = RawRead(source, AP_MODE_SPECULATIVE, APR_BLOCK_READ, 1).rv
    /\ npn_state' = npn_state /\ warned' = warned
    /\ brigade' = <<>> /\ source' = source
    /\ PipelineUntouched

C7_ProbesAgain ==
  (IsReadCall /\ npn_state = NOT_DONE_YET) => pc' = "probe"

\* C7 (as amended). When the probe read fails, Read returns its status,
\* does not write the negotiation state (no default to NOT_USING_SPDY: the
\* state is NOT_DONE_YET afterwards unless the NPN callback set it during
\* the probe), adds nothing to the brigade and pumps nothing; and every
\* Read that finds the state NOT_DONE_YET issues the probe.
C7_ProbeFailureKeepsDetectionOpen ==
  [][C7_FailureReturned /\ C7_ProbesAgain]_vars

\* C7 witness: the probe failed with the negotiation not done, and Read
\* returned the failure with the state still NOT_DONE_YET.
C7_Witness ==
  /\ pc = "returned" /\ branch = "probe_failed"
  /\ npn_state = NOT_DONE_YET /\ ~warned
  /\ ret = APR_TIMEUP /\ brigade = <<>>

\* C7 as claimed: after a Read whose probe failed the negotiation state is
\* NOT_DONE_YET.
C7_Original ==
  (pc = "returned" /\ branch = "probe_failed") => npn_state = NOT_DONE_YET

C8_Default ==
  (IsProbeReturn /\ ProbeSucceeds) =>
    IF npn_state = NOT_DONE_YET
      THEN LET r == RawRead(source, args.mode, args.block, args.readbytes)
           IN  /\ npn_state' = NOT_USING_SPDY /\ warned'
               /\ pc' = "returned" /\ branch' = "passthrough"
               /\ ret' = r.rv /\ brigade' = r.data
               /\ PipelineUntouched
      ELSE npn_state' = npn_state /\ warned' = warned

C8_NoOtherWrite ==
  npn_state' # npn_state =>
    \/ pc' = pc /\ npn_state = NOT_DONE_YET
    \/ /\ IsProbeReturn /\ ProbeSucceeds
       /\ npn_state = NOT_DONE_YET /\ npn_state' = NOT_USING_SPDY

\* C8. Fail-open default: when the probe succeeds with the negotiation
\* state still NOT_DONE_YET, Read sets it to NOT_USING_SPDY, logs the
\* warning and serves the call as a pass-through; a state the callback set
\* during the probe is left as it is; and the state changes in no other
\* step of Read (the only other change is the callback's own).
C8_FailOpenDefault == [][C8_Default /\ C8_NoOtherWrite]_vars

\* C8 witness: Read defaulted the state and returned raw buckets.
C8_Witness ==
  /\ pc = "returned" /\ warned /\ npn_state = NOT_USING_SPDY
  /\ branch = "passthrough" /\ brigade # <<>>

\* A step in which Read, in protocol mode, reaches the abort check.
AtAbortCheck ==
  /\ npn_state = USING_SPDY
  /\ IsReadCall \/ (IsProbeReturn /\ ProbeSucceeds)

C9_Aborted ==
  (AtAbortCheck /\ aborted) =>
    /\ pc' = "returned" /\ branch' = "aborted"
    /\ ret' = APR_ECONNABORTED
    /\ brigade' = <<EosBucket>>
    /\ source' = source
    /\ PipelineUntouched

\* C9. Connection abort: a Read in protocol mode on a connection marked
\* aborted appends exactly one end-of-stream marker and returns
\* APR_ECONNABORTED, whatever the queue holds and whatever the mode, with
\* no pump call and no accumulator read or popped.
C9_ConnectionAbort == [][C9_Aborted]_vars

\* C9 witness: an AP_MODE_INIT Read on an aborted connection whose head
\* accumulator is errored, with frames waiting in the transport.
C9_Witness ==
  /\ pc = "returned" /\ branch = "aborted" /\ args.mode = AP_MODE_INIT
  /\ ret = APR_ECONNABORTED /\ brigade = <<EosBucket>>
  /\ LiveHeadErrored(queue) /\ source # <<>>

\* C10. hasError reflects only the head: HasError answers true exactly when
\* the accumulator that is the head after the removable ones are popped is
\* errored; and Read returns APR_EGENERAL only with an errored accumulator
\* at the head of the queue, every stream created before it popped.
C10_HasErrorReflectsHead ==
  /\ HasError(queue).val <=> LiveHeadErrored(queue)
  /\ (pc = "returned" /\ ret = APR_EGENERAL) =>
       /\ branch = "error"
       /\ queue # <<>> /\ Head(queue).error
       /\ \A id \in CreatedIds :
            CreatedBefore(id, Head(queue).id) => id \notin Ids(queue)

\* C10 witness: a Read pumped a malformed stream-open frame behind a
\* stalled head and returned would-block, not the failure.
C10_Witness ==
  /\ pc = "returned" /\ branch = "drained" /\ pumpCalls > 0
  /\ Len(queue) = 2 /\ HeadStalled /\ queue[2].error
  /\ ~HasError(queue).val
  /\ ret # APR_EGENERAL /\ brigade = <<>>

\* C11. True upstream status on drain: a Read in protocol mode that went
\* through the factory's Read returns next_filter_rv, the status of the last
\* raw read, when no data is available afterwards (also when it returned
\* bytes), and the factory Read's own status, APR_SUCCESS, when data is
\* still available.
C11_TrueUpstreamStatus ==
  (pc = "returned" /\ branch \in {"drained", "read", "dcheck"}) =>
    /\ branch = "drained" <=> ~IsDataAvailable(queue).val
    /\ branch = "drained" => ret = next_filter_rv
    /\ branch = "read" => ret = APR_SUCCESS /\ brigade # <<>>
    /\ branch = "dcheck" => ret = APR_EGENERAL

\* C11 witness: a blocking Read drained the buffers without a byte to give
\* and returned the time-out of the raw read, not APR_SUCCESS.
C11_Witness ==
  /\ pc = "returned" /\ branch = "drained"
  /\ args.block = APR_BLOCK_READ /\ ret = APR_TIMEUP
  /\ queue # <<>> /\ ~IsDataAvailable(queue).val
  /\ out # <<>> /\ brigade = <<>>

\* An accumulator that is complete and (empty or errored).
FullyDrained(a) == a.complete /\ (a.data = <<>> \/ a.error)

\* The stream ids of a sequence of records, in its order.
IdSeq(s) == [i \in 1..Len(s) |-> s[i].id]

\* The positions of Read right after a HasError, IsDataAvailable or
\* factory Read call, nothing of the queue touched since.
AfterQuery ==
  \/ pc = "drain"
  \/ pc = "returned" /\ branch \in {"error", "drained", "read", "dcheck"}

\* C12. Eviction rule and head invariant: RemoveEmptyAccumulators gives the
\* queue without its longest prefix of accumulators that are complete and
\* (empty or errored); right after a HasError, IsDataAvailable or factory
\* Read call the queue is empty or its head is not such an accumulator; and
\* accumulators leave only from the front: those popped, in the order they
\* were popped, followed by those queued, are the streams in creation
\* order, and each was complete and (empty or errored) when popped.
C12_EvictionRule ==
  /\ \E k \in 0..Len(queue) :
       /\ \A j \in 1..k : FullyDrained(queue[j])
       /\ k < Len(queue) => ~FullyDrained(queue[k + 1])
       /\ RemoveEmptyAccumulators(queue) = SubSeq(queue, k + 1, Len(queue))
  /\ AfterQuery => (queue = <<>> \/ ~FullyDrained(Head(queue)))
  /\ \A q \in {HasError(queue).q, IsDataAvailable(queue).q}
             \cup {FactoryRead(queue, AP_MODE_READBYTES, n).q : n \in ReadSizes} :
       q = <<>> \/ ~FullyDrained(Head(q))
  /\ IdSeq(evicted) \o IdSeq(queue) = IdSeq(created)
  /\ \A j \in 1..Len(evicted) :
       evicted[j].complete /\ (evicted[j].left = 0 \/ evicted[j].error)

\* C12 witness: stream 2 completed behind stream 1 with its request
\* buffered; stream 1 was popped when it completed, and a Read returned
\* part of stream 2, which stays at the head, complete and not empty.
C12_Witness ==
  /\ pc = "returned" /\ branch = "read"
  /\ completed = <<2, 1>>
  /\ IdSeq(evicted) = <<1>> /\ IdSeq(queue) = <<2>>
  /\ Head(queue).complete /\ Head(queue).data # <<>>

C13_Init ==
  (AtAbortCheck /\ ~aborted /\ args'.mode = AP_MODE_INIT) =>
    /\ pc' = "returned" /\ branch' = "init"
    /\ ret' = APR_SUCCESS
    /\ brigade' = <<>>
    /\ PipelineUntouched
    /\ UNCHANGED <<source, frag, completed, wr, reported, lastPump>>

\* C13. Capability probe: a Read in protocol mode on a connection not
\* aborted whose mode is AP_MODE_INIT returns APR_SUCCESS and changes
\* nothing: no pump call, no raw byte consumed, no accumulator created,
\* written, read or popped, nothing appended to the brigade, whatever the
\* head accumulator holds.
C13_CapabilityProbe == [][C13_Init]_vars

\* C13 witness: an AP_MODE_INIT Read returned APR_SUCCESS with nothing while
\* the head accumulator had data and frames waited in the transport.
C13_Witness ==
  /\ pc = "returned" /\ branch = "init" /\ args.mode = AP_MODE_INIT
  /\ ~aborted /\ npn_state = USING_SPDY
  /\ ret = APR_SUCCESS /\ brigade = <<>>
  /\ IsDataAvailable(queue).val /\ source # <<>>

\* The positions in the queue of the accumulators a step takes out of it.
Leaving == {i \in 1..Len(queue) : queue[i].id \notin Ids(queue')}

C14_OnlyFromTheFront ==
  /\ \A i \in Leaving : \A j \in 1..i : j \in Leaving
  /\ \A i \in Leaving :
       \E j \in (Len(evicted) + 1)..Len(evicted') :
         /\ evicted'[j].id = queue[i].id
         /\ evicted'[j].complete
         /\ evicted'[j].left = 0 \/ evicted'[j].error

C14_Idempotent ==
  LET once == RemoveEmptyAccumulators(queue)
      h == HasError(queue)
      d == IsDataAvailable(queue)
  IN  /\ RemoveEmptyAccumulators(once) = once
      /\ h.q = once /\ d.q = once
      /\ HasError(h.q) = h /\ HasError(d.q) = h
      /\ IsDataAvailable(d.q) = d /\ IsDataAvailable(h.q) = d

\* C14. Idempotent cleanup: accumulators leave the queue only from its
\* front, each complete and (empty or errored) when it leaves; and on every
\* queue the program reaches, RemoveEmptyAccumulators applied twice gives
\* what it gives applied once, and HasError and IsDataAvailable called
\* again after either of them leave the queue as the first call left it
\* and give the answers they gave the first time.
C14_IdempotentCleanup == [](C14_Idempotent) /\ [][C14_OnlyFromTheFront]_vars

\* C14 witness: inside the loop the two accumulators at the front are both
\* complete and (empty or errored): one cleanup pops both, a second pops
\* nothing more.
C14_Witness ==
  /\ pc = "pump" /\ Len(queue) = 2
  /\ FullyDrained(queue[1]) /\ FullyDrained(queue[2])
  /\ RemoveEmptyAccumulators(queue) = <<>>

C15_PumpOnlyWhileNeither ==
  IsPumpStep =>
    /\ pumpCalls' \in {pumpCalls, pumpCalls + 1}
    /\ pumpCalls' = pumpCalls + 1 <=>
         (~HasError(queue).val /\ ~IsDataAvailable(queue).val)
    /\ pumpCalls' = pumpCalls =>
         /\ pc' = "drain"
         /\ UNCHANGED <<source, partial, buffered, next_filter_rv, created, wr, lastPump>>
    /\ pc' = "drain" =>
         \/ HasError(queue').val
         \/ IsDataAvailable(queue').val
         \/ lastPump' = "false"

C15_LoopExit ==
  pc = "drain" =>
    \/ HasError(queue).val
    \/ IsDataAvailable(queue).val
    \/ lastPump = "false"

\* C15. Pump loop condition: a turn of the loop of Read calls PumpOneFrame
\* exactly when the queue reports neither an error nor available data, so
\* a Read entered with data or an error at the head makes no pump call and
\* consumes no raw byte; and when the loop has ended HasError is true, or
\* IsDataAvailable is true, or the last PumpOneFrame call returned false.
C15_PumpLoopCondition == [](C15_LoopExit) /\ [][C15_PumpOnlyWhileNeither]_vars

\* C15 witness: the loop ended after two pump calls that both made
\* progress, because data became available; frames are left in the
\* transport.
C15_Witness ==
  /\ pc = "drain" /\ pumpCalls = 2 /\ lastPump = "true"
  /\ IsDataAvailable(queue).val /\ ~HasError(queue).val
  /\ source # <<>>

\* The frames the peer has sent or may still send that the pump has not
\* dispatched, counted twice, less one when the framer holds the first part
\* of the next: what is left for PumpOneFrame to make progress on.
PumpWork ==
  2 * (MaxFrames - sent + Len(source)) - (IF partial THEN 1 ELSE 0)

C16_PumpsAreBounded == PumpWork >= 0 /\ pumpCalls <= 2 * sent + 1

C16_LoopAdvances ==
  /\ PumpWork' <= PumpWork
  /\ IsPumpStep =>
       /\ pc' \in {"pump", "drain"}
       /\ pc' = "pump" => PumpWork' < PumpWork
  /\ pc = "drain" => pc' = "returned"

\* C16. Each Read call terminates: the frames of the peer being finitely
\* many, every turn of the pump loop that does not end the loop lessens
\* what is left to pump, which no step increases and which is never
\* negative; the loop ends after at most two PumpOneFrame calls for each
\* frame and one more, and the step after the loop returns. So it is also
\* when the head accumulator stays empty and incomplete and the pumped
\* frames all belong to later streams.
C16_ReadTerminates == [](C16_PumpsAreBounded) /\ [][C16_LoopAdvances]_vars

\* C16 witness: a Read pumped the frames of stream 2 behind the stalled,
\* empty head, then found no byte and returned.
C16_Witness ==
  /\ pc = "returned" /\ pumpCalls >= 3 /\ lastPump = "false"
  /\ Len(queue) = 2 /\ HeadStalled /\ Head(queue).data = <<>>
  /\ queue[2].complete /\ queue[2].data # <<>>

Returned(id) == SelectSeq(out, LAMBDA b : b.kind = "data" /\ b.id = id)

\* C18. No data loss for healthy streams: an accumulator popped without an
\* error was complete and empty, and every byte written to it had been
\* returned by a Read, in the order written; an accumulator popped with
\* bytes left in it was complete and errored.
C18_NoDataLoss ==
  \A j \in 1..Len(evicted) :
    /\ ~evicted[j].error =>
         /\ evicted[j].complete /\ evicted[j].left = 0
         /\ Returned(evicted[j].id) = Content(evicted[j].id)
    /\ evicted[j].left > 0 => (evicted[j].complete /\ evicted[j].error)

\* C18 witness: stream 1 was popped complete and empty with its two bytes
\* returned, and stream 2, reset with its request unread, was popped with
\* those bytes in it.
C18_Witness ==
  /\ Len(evicted) = 2
  /\ ~evicted[1].error /\ evicted[1].left = 0
  /\ Returned(evicted[1].id) = Content(evicted[1].id) /\ Len(out) = 2
  /\ evicted[2].error /\ evicted[2].left = 2

\* Protocol mode on a connection not aborted, no stream errored, every
\* opened stream ended by its end marker, every frame arrived whole.
AllSent ==
  /\ npn_state = USING_SPDY /\ ~aborted
  /\ NoStreamErrored
  /\ \A i \in 1..Len(source) : source[i].ok /\ source[i].kind # "rst"
  /\ ~frag /\ \A i \in StreamIds : peer[i] # "open"

\* Every stream the peer opened was created, drained and popped.
AllDelivered ==
  /\ queue = <<>> /\ source = <<>>
  /\ Len(created) = Cardinality({i \in StreamIds : peer[i] # "none"})
  /\ IdSeq(evicted) = IdSeq(created)
  /\ out = Serialized(created)

\* The consumer keeps calling Read for bytes: again and again it is between
\* two calls, and again and again a call for bytes has returned.
KeepsReading ==
  /\ []<>(pc = "idle")
  /\ []<>(pc = "returned" /\ args.mode = AP_MODE_READBYTES)

\* C19. Eventual delivery: if from some time on the connection is in
\* protocol mode and not aborted, no stream is errored, every opened stream
\* has got its end marker and all frames have arrived, and the consumer
\* keeps calling Read for bytes, then from some time on the queue is empty,
\* every stream's accumulator drained and popped and all bytes returned.
C19_EventualDelivery == (KeepsReading /\ <>[]AllSent) => <>[]AllDelivered

\* C19 witness: two streams, opened and ended by the four frames of the
\* peer, have been returned whole and popped.
C19_Witness ==
  /\ AllSent /\ AllDelivered
  /\ sent = 4 /\ Len(created) = 2 /\ Len(out) = 4

\* C20. The DCHECK(false) branch of the factory's Read is never taken
\* through SpdyInputFilter::Read: after the loop, when HasError is false the
\* factory's Read called next does not find an error, and when HasError is
\* true Read returns APR_EGENERAL itself; no Read has left with the
\* factory's APR_EGENERAL.
C20_DcheckBranchUnreached ==
  /\ branch # "dcheck"
  /\ pc = "drain" =>
       LET h == HasError(queue)
       IN  ~h.val => ~FactoryRead(h.q, args.mode, args.readbytes).dcheck
  /\ (pc = "returned" /\ ret = APR_EGENERAL) =>
       (branch = "error" /\ brigade = <<EosBucket>>)

\* C20 witness: the factory's Read was called, and returned bytes of the
\* head, with an errored accumulator queued behind the head.
C20_Witness ==
  /\ pc = "returned" /\ branch \in {"read", "drained"} /\ brigade # <<>>
  /\ Len(queue) = 2 /\ ~Head(queue).error /\ queue[2].error

====
